---- MODULE Spec2Model ----
(***************************************************************************)
(* Valuation enrichment pipeline of FloorIQ: the multi-source scrape        *)
(* coordinator (backend/app/scrapers/multi_source_scraper.py), the three    *)
(* site adapters and the enrichment task that drives them.                  *)
(*                                                                          *)
(* Python values are encoded as follows.                                    *)
(*   None / a value v     <<>> / <<v>>   (an optional is a sequence)        *)
(*   a dict               a record whose fields are optionals               *)
(*   an int result        an integer                                        *)
(*   a float result       a record [t, e], see the section on doubles       *)
(***************************************************************************)
EXTENDS Integers, Sequences, FiniteSets, TLC

VARIABLES
    hashSeed,      \* iteration order of a set of str in this interpreter (PYTHONHASHSEED)
    outcome,       \* what each adapter's search_property does when awaited
    task,          \* state of each _safe_scrape coroutine
    finished,      \* the adapters in the order their coroutines completed
    results,       \* the list returned by asyncio.gather
    aggregated,    \* the dict returned by _aggregate_property_data
    pc,            \* position inside scrape_property
    runs,          \* number of scrape_property calls started
    prevAggregated,\* the aggregate of the previous call with the same adapter outputs
    fnArgs,        \* argument list of a helper called on its own
    fnRet,         \* its return value
    scraper,       \* one site adapter inside search_property
    job,           \* one enrich_property_data task
    extractor,     \* one _extract_comps_from_text call
    attom,         \* one AttomAPIClient instance
    parser         \* one ZillowScraper._parse_property_details call

coordVars == <<hashSeed, outcome, task, finished, results, aggregated, pc, runs, prevAggregated>>
fnVars == <<fnArgs, fnRet>>
vars == <<coordVars, fnVars, scraper, job, extractor, attom, parser>>

----------------------------------------------------------------------------
(* Optionals and truthiness *)

None == <<>>
Some(v) == <<v>>
IsNone(o) == o = <<>>
\* bool(x) of an optional number: None and 0 are falsy
TruthyNum(o) == o # <<>> /\ o[1] # 0
\* bool(x) of an optional str: None and '' are falsy
TruthyStr(o) == o # <<>> /\ o[1] # ""

Min2(a, b) == IF a <= b THEN a ELSE b
SeqSum(s) == LET RECURSIVE Go(_)
                 Go(i) == IF i > Len(s) THEN 0 ELSE s[i] + Go(i + 1)
             IN Go(1)
\* the first element taken for the least
SeqFirst(s) == s[1]
SeqMin(s) == CHOOSE x \in {s[i] : i \in 1..Len(s)} : \A j \in 1..Len(s) : x <= s[j]
SeqMax(s) == CHOOSE x \in {s[i] : i \in 1..Len(s)} : \A j \in 1..Len(s) : x >= s[j]
Count(s, v) == Cardinality({i \in 1..Len(s) : s[i] = v})
\* [f(x) for x in s if p(x)] is SelectSeq followed by a map
MapSeq(s, F(_)) == [i \in 1..Len(s) |-> F(s[i])]

----------------------------------------------------------------------------
(* IEEE-754 doubles.                                                        *)
(* _calculate_quality_score and _calculate_median compute with Python       *)
(* floats.  Every double that these computations produce is written         *)
(*      x = t/3 + e * 2^-51 / 3      (t, e integers, e small)               *)
(* so that thirds and their rounding errors are exact.  G = 2^(k-1) is the  *)
(* number of such units in a third of an ulp of the binade [2^k, 2^(k+1)).  *)

Dbl(t, e) == [t |-> t, e |-> e]
DblOfInt(n) == Dbl(3 * n, 0)
Pow2(k) == LET RECURSIVE P(_)
               P(i) == IF i = 0 THEN 1 ELSE 2 * P(i - 1)
           IN P(k)
\* x >= n for an integer n
DblGeq(x, n) == x.t > 3 * n \/ (x.t = 3 * n /\ x.e >= 0)
\* the k with 2^k <= x < 2^(k+1), for 2 <= x < 256
Binade(x) == CHOOSE k \in 1..7 : DblGeq(x, Pow2(k)) /\ ~DblGeq(x, Pow2(k + 1))
\* round-to-nearest, ties-to-even, of the exact value x to a double
RoundDbl(x) ==
    IF x.t = 0 /\ x.e = 0 THEN x
    ELSE LET k == Binade(x)
             G == Pow2(k - 1)
             M == 3 * G
             b == (x.t * (IF (52 - k) % 2 = 0 THEN 1 ELSE 2)) % 3
             r == (b * G + x.e) % M
             c == ((b * G + x.e) - r) \div M
             down == Dbl(x.t, x.e - r)
             up == Dbl(x.t, x.e + (M - r))
         IN IF 2 * r < M THEN down
            ELSE IF 2 * r > M THEN up
            ELSE IF (b + c) % 2 = 0 THEN down ELSE up
\* a + b in double arithmetic
DblAdd(a, b) == RoundDbl(Dbl(a.t + b.t, a.e + b.e))
\* 40 / n for n sources (n divides 120 for the three adapters)
Dbl40Over(n) == RoundDbl(Dbl(120 \div n, 0))
\* (k / 4) * x: k/4 is exact, the product is rounded once
DblTimesQuarters(k, x) == RoundDbl(Dbl((x.t * k) \div 4, (x.e * k) \div 4))
\* int(x) for x >= 0
DblToInt(x) == IF x.e >= 0 THEN x.t \div 3 ELSE (x.t - 1) \div 3
\* x == n for an integer n
DblEqInt(x, n) == x.t = 3 * n /\ x.e = 0
\* (a + b) / 2 for ints a, b below 2^52: exact
HalfSum(a, b) == [num |-> a + b, den |-> 2]
Num(n) == [num |-> n, den |-> 1]
\* Python == between a number returned by _calculate_median and an int
NumEq(x, n) == x.num = n * x.den
NumLeq(x, y) == x.num * y.den <= y.num * x.den

----------------------------------------------------------------------------
(* The scrape coordinator's helpers: multi_source_scraper.py                *)

Adapters == <<"zillow", "redfin", "streeteasy">>
SourceTag == [zillow |-> "Zillow", redfin |-> "Redfin", streeteasy |-> "StreetEasy"]

\* Iteration order of a set of small ints in CPython: hash(i) = i, eight slots,
\* no collision between 0..7, slots visited in index order.
SmallInts == 0..7
IntSetOrder == <<0, 1, 2, 3, 4, 5, 6, 7>>

\* list(set(S)): the members of S in the interpreter's iteration order
SetIter(S, order) == SelectSeq(order, LAMBDA v : v \in S)

\* max(seq, key=Key): the first maximal element met
MaxFirst(seq, Key(_)) ==
    seq[CHOOSE i \in 1..Len(seq) :
            /\ \A j \in 1..Len(seq) : Key(seq[j]) <= Key(seq[i])
            /\ \A j \in 1..(i - 1) : Key(seq[j]) < Key(seq[i])]

\* values: a list of optionals; order: the iteration order of set() for their type
_get_consensus_value(values, order) ==
    LET valid_values == MapSeq(SelectSeq(values, LAMBDA v : v # None), LAMBDA v : v[1])
        members == {valid_values[i] : i \in 1..Len(valid_values)}
    IN IF valid_values = <<>> THEN None
       ELSE Some(MaxFirst(SetIter(members, order), LAMBDA v : Count(valid_values, v)))

\* the median taken without sorting first
_calculate_median_unsorted(values) ==
    IF values = <<>> THEN None
    ELSE LET n == Len(values)
         IN IF n % 2 = 0
            THEN Some(HalfSum(values[n \div 2], values[n \div 2 + 1]))
            ELSE Some(Num(values[n \div 2 + 1]))

\* values: a list of ints
_calculate_median(values) ==
    IF values = <<>> THEN None
    ELSE LET sorted_values == SortSeq(values, LAMBDA a, b : a < b)
             n == Len(sorted_values)
         IN IF n % 2 = 0
            THEN Some(HalfSum(sorted_values[n \div 2], sorted_values[n \div 2 + 1]))
            ELSE Some(Num(sorted_values[n \div 2 + 1]))

required_fields == <<"price", "bedrooms", "bathrooms", "square_feet">>

\* sum(1 for field in required_fields if source.get(field))
complete_fields(source) ==
    Cardinality({i \in 1..Len(required_fields) : TruthyNum(source[required_fields[i]])})

\* the score without the 20 points per source
_calculate_quality_score_no_base(sources) ==
    LET RECURSIVE Acc(_, _)
        Acc(score, i) ==
            IF i > Len(sources) THEN score
            ELSE Acc(DblAdd(score,
                            DblTimesQuarters(complete_fields(sources[i]),
                                             Dbl40Over(Len(sources)))),
                     i + 1)
    IN Min2(DblToInt(Acc(DblOfInt(0), 1)), 100)

\* the score with the 40 completeness points granted to every source
_calculate_quality_score_undivided(sources) ==
    LET base == DblOfInt(Len(sources) * 20)
        RECURSIVE Acc(_, _)
        Acc(score, i) ==
            IF i > Len(sources) THEN score
            ELSE Acc(DblAdd(score,
                            DblTimesQuarters(complete_fields(sources[i]), Dbl40Over(1))),
                     i + 1)
    IN Min2(DblToInt(Acc(base, 1)), 100)

\* sources: a list of snapshot records
_calculate_quality_score(sources) ==
    LET base == DblOfInt(Len(sources) * 20)
        RECURSIVE Acc(_, _)
        Acc(score, i) ==
            IF i > Len(sources) THEN score
            ELSE Acc(DblAdd(score,
                            DblTimesQuarters(complete_fields(sources[i]),
                                             Dbl40Over(Len(sources)))),
                     i + 1)
    IN Min2(DblToInt(Acc(base, 1)), 100)

_empty_aggregated_data ==
    [address |-> None,
     price_consensus |-> None,
     sources_count |-> 0,
     sources_available |-> <<>>,
     data_quality_score |-> 0]

\* a filter that lets every snapshot with any populated field through
has_signal_or_details(s) ==
    \/ TruthyNum(s.price) \/ TruthyStr(s.listing_url) \/ TruthyStr(s.address)
    \/ TruthyNum(s.bedrooms) \/ TruthyNum(s.bathrooms) \/ TruthyNum(s.square_feet)

has_signal(s) == TruthyNum(s.price) \/ TruthyStr(s.listing_url) \/ TruthyStr(s.address)

\* zillow, redfin, streeteasy: optional snapshots (None or Some(record))
_aggregate_property_data(zillow, redfin, streeteasy, seed) ==
    LET given == <<zillow, redfin, streeteasy>>
        sources == MapSeq(SelectSeq(given, LAMBDA o : o # None /\ has_signal(o[1])),
                          LAMBDA o : o[1])
        prices == MapSeq(SelectSeq(sources, LAMBDA s : TruthyNum(s.price)),
                         LAMBDA s : s.price[1])
        sqfts == MapSeq(SelectSeq(sources, LAMBDA s : TruthyNum(s.square_feet)),
                        LAMBDA s : s.square_feet[1])
    IN IF sources = <<>> THEN _empty_aggregated_data
       ELSE [address |-> _get_consensus_value(MapSeq(sources, LAMBDA s : s.address), seed),
             price_consensus |-> IF prices # <<>> THEN _calculate_median(prices) ELSE None,
             price_low |-> IF prices # <<>> THEN Some(SeqMin(prices)) ELSE None,
             price_high |-> IF prices # <<>> THEN Some(SeqMax(prices)) ELSE None,
             price_average |-> IF prices # <<>> THEN Some(SeqSum(prices) \div Len(prices))
                                                ELSE None,
             bedrooms |-> _get_consensus_value(MapSeq(sources, LAMBDA s : s.bedrooms),
                                               IntSetOrder),
             bathrooms |-> _get_consensus_value(MapSeq(sources, LAMBDA s : s.bathrooms),
                                                IntSetOrder),
             square_feet |-> IF sqfts # <<>> THEN _calculate_median(sqfts) ELSE None,
             sources |-> [zillow |-> zillow, redfin |-> redfin, streeteasy |-> streeteasy],
             sources_count |-> Len(sources),
             sources_available |-> MapSeq(sources, LAMBDA s : s.source),
             data_quality_score |-> _calculate_quality_score(sources)]

----------------------------------------------------------------------------
(* Inputs of the coordinator                                                *)

\* a second scrape_property call with the same adapter outputs is modelled up to here
MaxRuns == 2

Snap(a, address, price, listing_url, bedrooms, bathrooms, square_feet) ==
    [source |-> Some(SourceTag[a]),
     address |-> address,
     price |-> price,
     listing_url |-> listing_url,
     bedrooms |-> bedrooms,
     bathrooms |-> bathrooms,
     square_feet |-> square_feet]

Opt(S) == {None} \cup {Some(v) : v \in S}

Addresses == {"A", "B"}
\* every order in which a set of these strings can be iterated
Seeds == {<<"A", "B">>, <<"B", "A">>}

\* snapshots that differ in what identifies the listing
IdentitySnapshots(a) ==
    {Snap(a, address, price, None, None, None, None) :
        address \in Opt(Addresses), price \in Opt({400000})}

\* snapshots that differ in how complete they are; one without a price may still
\* carry the URL of the page it was read from.  A price, URL or address that is
\* present is a real one (positive, non-empty); bedrooms may be 0 (a studio).
DetailSnapshots(a) ==
    {Snap(a, None, price, None, bedrooms, bathrooms, square_feet) :
        price \in Opt({400000, 420000}),
        bedrooms \in Opt({0, 3}), bathrooms \in Opt({2}), square_feet \in Opt({900})}
    \cup
    {Snap(a, None, None, Some("u"), bedrooms, None, None) : bedrooms \in Opt({0, 3})}

Returns(snap) == [kind |-> "return", snap |-> Some(snap)]
Raises == [kind |-> "raise", snap |-> None]

\* what search_property of adapter i may do: raise, or return one of the snapshots
IdentityOutcomes(i) == {Raises} \cup {Returns(sn) : sn \in IdentitySnapshots(Adapters[i])}
DetailOutcomes(i) == {Raises} \cup {Returns(sn) : sn \in DetailSnapshots(Adapters[i])}

Pending == [state |-> "pending", value |-> None]
Done(value) == [state |-> "done", value |-> value]

AdapterIds == 1..Len(Adapters)
AllDone == \A i \in AdapterIds : task[i].state = "done"

FnIdle == fnArgs = <<>> /\ fnRet = <<>>
\* no adapter call and no enrichment task in progress
OthersIdle ==
    /\ scraper = [pc |-> "idle"] /\ job = [pc |-> "idle"] /\ extractor = [pc |-> "idle"]
    /\ attom = [pc |-> "idle"] /\ parser = [pc |-> "idle"]

----------------------------------------------------------------------------
(* scrape_property: three _safe_scrape coroutines joined by asyncio.gather  *)

Init ==
    /\ hashSeed \in Seeds
    /\ outcome \in {<<z, r, s>> : z \in IdentityOutcomes(1), r \in IdentityOutcomes(2),
                                  s \in IdentityOutcomes(3)}
    /\ task = [i \in AdapterIds |-> Pending]
    /\ finished = <<>>
    /\ results = <<>>
    /\ aggregated = None
    /\ pc = "awaiting"
    /\ runs = 1
    /\ prevAggregated = None
    /\ FnIdle
    /\ OthersIdle

\* _safe_scrape: the awaited search_property returned a snapshot
SafeScrapeReturns(i) ==
    /\ pc = "awaiting"
    /\ task[i].state = "pending"
    /\ outcome[i].kind = "return"
    /\ task' = [task EXCEPT ![i] = Done(outcome[i].snap)]
    /\ finished' = Append(finished, i)
    /\ UNCHANGED <<hashSeed, outcome, results, aggregated, pc, runs, prevAggregated, fnVars, scraper, job, extractor, attom, parser>>

\* _safe_scrape: the awaited search_property raised; the except clause returns None
SafeScrapeCatches(i) ==
    /\ pc = "awaiting"
    /\ task[i].state = "pending"
    /\ outcome[i].kind = "raise"
    /\ task' = [task EXCEPT ![i] = Done(None)]
    /\ finished' = Append(finished, i)
    /\ UNCHANGED <<hashSeed, outcome, results, aggregated, pc, runs, prevAggregated, fnVars, scraper, job, extractor, attom, parser>>

\* a join that gives up the other results once one adapter has failed
GatherCancelOnFailure ==
    /\ pc = "awaiting"
    /\ AllDone
    /\ results' = IF \E i \in AdapterIds : outcome[i].kind = "raise"
                  THEN [i \in AdapterIds |-> None]
                  ELSE [i \in AdapterIds |-> task[i].value]
    /\ pc' = "gathered"
    /\ UNCHANGED <<hashSeed, outcome, task, finished, aggregated, runs, prevAggregated, fnVars, scraper, job, extractor, attom, parser>>

\* results = await asyncio.gather(*tasks, return_exceptions=True):
\* resumes when every task is done, results in the order of the tasks
Gather ==
    /\ pc = "awaiting"
    /\ AllDone
    /\ results' = [i \in AdapterIds |-> task[i].value]
    /\ pc' = "gathered"
    /\ UNCHANGED <<hashSeed, outcome, task, finished, aggregated, runs, prevAggregated, fnVars, scraper, job, extractor, attom, parser>>

\* aggregated = self._aggregate_property_data(...); return aggregated
Aggregate ==
    /\ pc = "gathered"
    /\ aggregated' = Some(_aggregate_property_data(results[1], results[2], results[3], hashSeed))
    /\ pc' = "returned"
    /\ UNCHANGED <<hashSeed, outcome, task, finished, results, runs, prevAggregated, fnVars, scraper, job, extractor, attom, parser>>

\* scrape_property is called again for the same listing pages by the same interpreter
ScrapeAgain ==
    /\ pc = "returned"
    /\ runs < MaxRuns
    /\ runs' = runs + 1
    /\ prevAggregated' = aggregated
    /\ task' = [i \in AdapterIds |-> Pending]
    /\ finished' = <<>>
    /\ results' = <<>>
    /\ aggregated' = None
    /\ pc' = "awaiting"
    /\ UNCHANGED <<hashSeed, outcome, fnVars, scraper, job, extractor, attom, parser>>

\* ... or by another worker process, whose str hashes are seeded afresh
ScrapeAgainInNewProcess ==
    /\ pc = "returned"
    /\ runs < MaxRuns
    /\ runs' = runs + 1
    /\ prevAggregated' = aggregated
    /\ hashSeed' \in Seeds
    /\ task' = [i \in AdapterIds |-> Pending]
    /\ finished' = <<>>
    /\ results' = <<>>
    /\ aggregated' = None
    /\ pc' = "awaiting"
    /\ UNCHANGED <<outcome, fnVars, scraper, job, extractor, attom, parser>>

Next ==
    \/ \E i \in AdapterIds : SafeScrapeReturns(i)
    \/ \E i \in AdapterIds : SafeScrapeCatches(i)
    \/ Gather
    \/ Aggregate
    \/ ScrapeAgain
    \/ ScrapeAgainInNewProcess

Spec == Init /\ [][Next]_vars

----------------------------------------------------------------------------
(* _aggregate_property_data on its own: the state in which gather has       *)
(* returned, for every combination of adapter results                       *)

InitAggregate ==
    /\ hashSeed = <<"A", "B">>
    /\ outcome \in {<<z, r, s>> : z \in DetailOutcomes(1), r \in DetailOutcomes(2),
                                  s \in DetailOutcomes(3)}
    /\ task = [i \in AdapterIds |-> Done(outcome[i].snap)]
    /\ finished = <<1, 2, 3>>
    /\ results = [i \in AdapterIds |-> outcome[i].snap]
    /\ aggregated = None
    /\ pc = "gathered"
    /\ runs = 1
    /\ prevAggregated = None
    /\ FnIdle
    /\ OthersIdle

SpecAggregate == InitAggregate /\ [][Aggregate]_vars

----------------------------------------------------------------------------
(* _get_consensus_value and _calculate_median called on their own           *)

\* longest list handed to a helper
MaxLen == 4

ListsOf(S, n) == UNION {[1..k -> S] : k \in 0..n}

\* _get_consensus_value receives one value per contributing source, in the order
\* zillow, redfin, streeteasy
StrConsensusCalls ==
    {[fn |-> "_get_consensus_value", type |-> "str", values |-> v] :
        v \in ListsOf(Opt(Addresses), Len(Adapters)) \ {<<>>}}

IntConsensusCalls ==
    {[fn |-> "_get_consensus_value", type |-> "int", values |-> v] :
        v \in ListsOf(Opt({0, 2, 3}), Len(Adapters)) \ {<<>>}}

MedianCalls ==
    {[fn |-> "_calculate_median", type |-> "int", values |-> v] :
        v \in ListsOf({200000, 250000, 300000}, MaxLen)}

CoordIdle ==
    /\ outcome = <<>>
    /\ task = <<>>
    /\ finished = <<>>
    /\ results = <<>>
    /\ aggregated = None
    /\ pc = "idle"
    /\ runs = 0
    /\ prevAggregated = None

InitHelpers ==
    /\ hashSeed \in Seeds
    /\ CoordIdle
    /\ \/ fnArgs \in StrConsensusCalls
       \/ fnArgs \in IntConsensusCalls
       \/ fnArgs \in MedianCalls
    /\ fnRet = None
    /\ OthersIdle

CallConsensus ==
    /\ fnRet = None
    /\ fnArgs.fn = "_get_consensus_value"
    /\ fnRet' = Some(_get_consensus_value(fnArgs.values,
                                          IF fnArgs.type = "str" THEN hashSeed ELSE IntSetOrder))
    /\ UNCHANGED <<coordVars, fnArgs, scraper, job, extractor, attom, parser>>

CallMedian ==
    /\ fnRet = None
    /\ fnArgs.fn = "_calculate_median"
    /\ fnRet' = Some(_calculate_median(fnArgs.values))
    /\ UNCHANGED <<coordVars, fnArgs, scraper, job, extractor, attom, parser>>

NextHelpers == CallConsensus \/ CallMedian

SpecHelpers == InitHelpers /\ [][NextHelpers]_vars

----------------------------------------------------------------------------
(* Vocabulary of the properties                                             *)

\* a snapshot carries a signal when one of the three fields is present
CarriesSignal(s) == s.price # None \/ s.listing_url # None \/ s.address # None
\* the adapters whose snapshot reached the join and carries a signal
Contributors == {i \in AdapterIds : results[i] # None /\ CarriesSignal(results[i][1])}
\* the adapters whose search_property returned a snapshot that carries a signal
SignalReturned == {i \in AdapterIds : outcome[i].kind = "return" /\ CarriesSignal(outcome[i].snap[1])}
\* number of the four completeness fields that are present, a present 0 included
PopulatedFields(s) == Cardinality({i \in 1..Len(required_fields) : s[required_fields[i]] # None})
SumOver(S, F(_)) == LET RECURSIVE Go(_)
                        Go(T) == IF T = {} THEN 0
                                 ELSE LET x == CHOOSE y \in T : TRUE IN F(x) + Go(T \ {x})
                    IN Go(S)
\* the k-th smallest element of a non-empty list of numbers
KthSmallest(v, k) ==
    CHOOSE x \in {v[i] : i \in 1..Len(v)} :
        /\ Cardinality({i \in 1..Len(v) : v[i] < x}) < k
        /\ Cardinality({i \in 1..Len(v) : v[i] <= x}) >= k
\* the most frequent present value of a list of optionals, the earliest in the list
\* among equally frequent ones
PriorityMode(values) ==
    LET present == {i \in 1..Len(values) : values[i] # None}
        Freq(i) == Cardinality({j \in present : values[j] = values[i]})
    IN IF present = {} THEN None
       ELSE values[CHOOSE i \in present :
                       /\ \A j \in present : Freq(j) <= Freq(i)
                       /\ \A j \in present : j < i => Freq(j) < Freq(i)]
\* the consensus part of an aggregate: everything but the raw per-source snapshots
ConsensusPart(agg) ==
    IF agg.sources_count = 0 THEN agg
    ELSE [f \in DOMAIN agg \ {"sources"} |-> agg[f]]

----------------------------------------------------------------------------
(* Properties of the scrape coordinator                                     *)

\* C1: whichever adapters raise, the adapters still pending can complete and the
\* join can resume, the join keeps every returned snapshot in its adapter's slot,
\* and the aggregate that scrape_property returns counts every returned snapshot
\* that carries price, listing_url or address.
C1_FailureIsolation ==
    /\ pc = "awaiting" =>
          /\ \A i \in AdapterIds : task[i].state = "pending" =>
                 ENABLED (SafeScrapeReturns(i) \/ SafeScrapeCatches(i))
          /\ AllDone => ENABLED Gather
    /\ pc \in {"gathered", "returned"} =>
          \A i \in AdapterIds : outcome[i].kind = "return" => results[i] = outcome[i].snap
    /\ pc = "returned" =>
          /\ aggregated # None
          /\ aggregated[1].sources_count = Cardinality(SignalReturned)
          /\ \A i \in SignalReturned :
                 /\ aggregated[1].sources[Adapters[i]] = outcome[i].snap
                 /\ \E j \in 1..Len(aggregated[1].sources_available) :
                        aggregated[1].sources_available[j] = Some(SourceTag[Adapters[i]])

C1_Witness ==
    /\ pc = "returned"
    /\ \E i \in AdapterIds : outcome[i].kind = "raise"
    /\ \E i \in AdapterIds : i \in SignalReturned
    /\ aggregated[1].sources_count = Cardinality(SignalReturned)
    /\ finished[1] \notin SignalReturned

\* C2: two calls of scrape_property that see the same adapter outputs return equal
\* aggregates (the timestamp aside), whatever the completion order of the tasks.
C2_SameOutputsSameAggregate ==
    (pc = "returned" /\ prevAggregated # None) => aggregated = prevAggregated

\* C3: _get_consensus_value returns the most frequent present value and, among
\* equally frequent values, the one of the adapter that comes first in priority order.
C3_ModeWithPriorityTieBreak ==
    (fnRet # None /\ fnArgs.fn = "_get_consensus_value") =>
        fnRet[1] = PriorityMode(fnArgs.values)

\* C4: _calculate_median returns None for the empty list, the middle element of the
\* sorted list for an odd length and the mean of the two middle elements for an even
\* length, whatever the order of the input.
C4_Median ==
    (fnRet # None /\ fnArgs.fn = "_calculate_median") =>
        LET v == fnArgs.values
            n == Len(v)
            r == fnRet[1]
        IN /\ n = 0 => r = None
           /\ (n > 0 /\ n % 2 = 1) =>
                  r # None /\ NumEq(r[1], KthSmallest(v, (n + 1) \div 2))
           /\ (n > 0 /\ n % 2 = 0) =>
                  r # None /\ 2 * r[1].num = (KthSmallest(v, n \div 2)
                                              + KthSmallest(v, n \div 2 + 1)) * r[1].den
           /\ v = <<200000, 250000>> => NumEq(r[1], 225000)
           /\ v = <<200000>> => NumEq(r[1], 200000)

C4_Witness ==
    /\ fnRet # None
    /\ fnArgs.fn = "_calculate_median"
    /\ fnArgs.values = <<250000, 200000, 300000, 200000>>
    /\ NumEq(fnRet[1][1], 225000)

----------------------------------------------------------------------------
(* Properties of _aggregate_property_data                                   *)

\* the results with every snapshot that carries no signal taken out
WithoutNoise == [i \in AdapterIds |->
                    IF results[i] # None /\ CarriesSignal(results[i][1]) THEN results[i] ELSE None]
\* floor(20 n + sum over the contributing snapshots of (k / 4) * (40 / n)), capped
\* at 100, in exact arithmetic
DocumentedScore ==
    LET n == Cardinality(Contributors)
        K == SumOver(Contributors, LAMBDA i : PopulatedFields(results[i][1]))
    IN Min2(100, 20 * n + (10 * K) \div n)

\* C5: the quality score is 0 exactly when no snapshot contributes, and then the
\* aggregate is still a record, with sources_count 0 and no price consensus.
C5_ZeroScoreIffNoSource ==
    pc = "returned" =>
        /\ aggregated # None
        /\ (aggregated[1].data_quality_score = 0) <=> (Contributors = {})
        /\ (aggregated[1].data_quality_score = 0) <=> (aggregated[1].sources_count = 0)
        /\ Contributors = {} =>
              /\ aggregated[1].sources_count = 0
              /\ aggregated[1].price_consensus = None

C5_Witness ==
    /\ pc = "returned"
    /\ Contributors = {}
    /\ \E i \in AdapterIds : results[i] # None /\ results[i][1].bedrooms # None
    /\ aggregated[1].data_quality_score = 0

\* C6: with n >= 1 contributing snapshots the quality score is
\* min(100, floor(20 n + sum of (k / 4) * (40 / n))), k counting the present fields
\* among price, bedrooms, bathrooms, square_feet (a present 0 included), and it
\* lies in 0..100.
C6_DocumentedQualityScore ==
    (pc = "returned" /\ Contributors # {}) =>
        /\ aggregated[1].data_quality_score = DocumentedScore
        /\ aggregated[1].data_quality_score \in 0..100

\* the case of C7: two adapters returned priced snapshots, 400000 and 420000, and
\* the third adapter failed
TwoPricedOneFailed ==
    \E i, j, l \in AdapterIds :
        /\ {i, j, l} = AdapterIds
        /\ outcome[l].kind = "raise"
        /\ outcome[i].kind = "return" /\ outcome[i].snap[1].price = Some(400000)
        /\ outcome[j].kind = "return" /\ outcome[j].snap[1].price = Some(420000)

C8_OnlySignalSnapshotsCount ==
    pc = "returned" =>
        /\ aggregated[1].sources_count = Cardinality(Contributors)
        /\ Len(aggregated[1].sources_available) = aggregated[1].sources_count
        /\ ConsensusPart(aggregated[1]) =
              ConsensusPart(_aggregate_property_data(WithoutNoise[1], WithoutNoise[2],
                                                     WithoutNoise[3], hashSeed))
        /\ aggregated[1].sources_count > 0 =>
              /\ aggregated[1].bedrooms \in {None} \cup {results[i][1].bedrooms : i \in Contributors}
              /\ aggregated[1].bathrooms \in {None} \cup {results[i][1].bathrooms : i \in Contributors}
              /\ aggregated[1].square_feet = None \/
                    \E i \in Contributors : results[i][1].square_feet # None

C8_Witness ==
    /\ pc = "returned"
    /\ aggregated[1].sources_count = 1
    /\ \E i \in AdapterIds : /\ results[i] # None
                             /\ ~CarriesSignal(results[i][1])
                             /\ results[i][1].bedrooms = Some(3)
                             /\ results[i][1].square_feet = Some(900)
    /\ aggregated[1].bedrooms = None
    /\ aggregated[1].square_feet = None

\* dict.get(key): the value of a key, None when the dict has no such key
Get(dict, key) == IF key \in DOMAIN dict THEN dict[key] ELSE None

\* the prices of the contributing snapshots
ContributingPrices ==
    {results[i][1].price[1] : i \in {j \in Contributors : results[j][1].price # None}}

\* C29: in a returned aggregate, when some contributing snapshot has a price,
\* price_low and price_high are the least and the greatest contributing price and
\* both price_consensus and price_average lie between them; when none has a price,
\* price_consensus, price_low, price_high and price_average all read as null.
C29_PriceStatisticsOrdered ==
    pc = "returned" =>
        LET a == aggregated[1]
        IN IF ContributingPrices # {}
           THEN /\ a.price_low # None /\ a.price_high # None
                /\ a.price_consensus # None /\ a.price_average # None
                /\ a.price_low[1] \in ContributingPrices
                /\ a.price_high[1] \in ContributingPrices
                /\ \A p \in ContributingPrices : a.price_low[1] <= p /\ p <= a.price_high[1]
                /\ NumLeq(Num(a.price_low[1]), a.price_consensus[1])
                /\ NumLeq(a.price_consensus[1], Num(a.price_high[1]))
                /\ a.price_low[1] <= a.price_average[1]
                /\ a.price_average[1] <= a.price_high[1]
           ELSE \A key \in {"price_consensus", "price_low", "price_high", "price_average"} :
                    Get(a, key) = None

\* three priced snapshots, 400000 listed first and 420000 twice
C29_Witness ==
    /\ pc = "returned"
    /\ Cardinality(Contributors) = 3
    /\ ContributingPrices = {400000, 420000}
    /\ aggregated[1].price_low = Some(400000)
    /\ aggregated[1].price_consensus = Some(Num(420000))
    /\ aggregated[1].price_average = Some(413333)

\* no contributing snapshot at all: the aggregate is _empty_aggregated_data
C29_WitnessEmpty ==
    /\ pc = "returned"
    /\ Contributors = {}
    /\ Get(aggregated[1], "price_low") = None

----------------------------------------------------------------------------
(* The site adapters: search_property of ZillowScraper, RedfinScraper and    *)
(* StreetEasyScraper.  The scraping client is the environment: each awaited *)
(* call either raises or returns a document, and a document is described by *)
(* what the adapter's parser reads from it.                                 *)

\* the dict a parser builds: every key of a snapshot, None where the page gave nothing
Raw(address, price, listing_url, bedrooms) ==
    [address |-> address, price |-> price, listing_url |-> listing_url,
     bedrooms |-> bedrooms, bathrooms |-> None, square_feet |-> None]

\* BaseScraper.normalize_property_data: the snapshot record of a parsed dict, tagged
\* with the adapter's source name
normalize_property_data(a, raw) ==
    Snap(a, raw.address, raw.price, raw.listing_url, raw.bedrooms, raw.bathrooms,
         raw.square_feet)

_empty_property_data(a) == normalize_property_data(a, Raw(None, None, None, None))

\* what a parser can read from a listing page or from a search-results card
ParsedFields ==
    {[Raw(address, price, None, bedrooms) EXCEPT !.bathrooms = bathrooms] :
        address \in Opt({"A"}), price \in Opt({400000}), bedrooms \in Opt({3}),
        bathrooms \in Opt({2})}
NoFields == Raw(None, None, None, None)

\* ZillowScraper._queens_detail_candidates builds no URL, one URL, or one with and
\* one without the zip code
CandidateCounts == {0, 1, 2}
CandidateUrl(k) == IF k = 2 THEN "homedetails-zip" ELSE "homedetails"

FirstStep == [zillow |-> "candidates", redfin |-> "client_check", streeteasy |-> "client_check"]

ScraperReturn(snapshot, got) ==
    scraper' = [scraper EXCEPT !.pc = "returned", !.ret = Some(snapshot),
                               !.got = scraper.got \/ got]

InitAdapter ==
    /\ hashSeed = <<"A", "B">>
    /\ CoordIdle
    /\ FnIdle
    /\ job = [pc |-> "idle"]
    /\ extractor = [pc |-> "idle"]
    /\ attom = [pc |-> "idle"]
    /\ parser = [pc |-> "idle"]
    /\ \E a \in {"zillow", "redfin", "streeteasy"}, client \in BOOLEAN,
          k \in CandidateCounts :
          /\ (a # "zillow") => k = 0
          /\ scraper = [adapter |-> a,
                        client |-> client,        \* self.client is set
                        candidates |-> k,         \* homedetails URLs left to try
                        pc |-> FirstStep[a],
                        got |-> FALSE,            \* some response carried a property field
                        ret |-> None]

\* for cand in candidates: the fetch, the canonical fetch or the parse raises
\* (AttributeError when self.client is None) and the loop continues
ZillowCandidateFails ==
    /\ scraper.pc = "candidates"
    /\ scraper.candidates > 0
    /\ scraper' = [scraper EXCEPT !.candidates = @ - 1]
    /\ UNCHANGED <<coordVars, fnVars, job, extractor, attom, parser>>

\* for cand in candidates: a page came back; whatever was parsed from it is returned
\* with listing_url set to the canonical URL
ZillowCandidateReturns ==
    /\ scraper.pc = "candidates"
    /\ scraper.candidates > 0
    /\ scraper.client
    /\ \E page \in ParsedFields, canon \in {CandidateUrl(scraper.candidates), "canonical"} :
          ScraperReturn(normalize_property_data("zillow",
                                               [page EXCEPT !.listing_url = Some(canon)]),
                        page # NoFields)
    /\ UNCHANGED <<coordVars, fnVars, job, extractor, attom, parser>>

\* if not self.client: raise Exception("Scraping client not initialized")
ZillowClientCheck ==
    /\ scraper.pc = "candidates"
    /\ scraper.candidates = 0
    /\ IF scraper.client
       THEN scraper' = [scraper EXCEPT !.pc = "extract_json"]
       ELSE ScraperReturn(_empty_property_data("zillow"), FALSE)
    /\ UNCHANGED <<coordVars, fnVars, job, extractor, attom, parser>>

\* data = await self.client.extract_json(search_url, ...)
ZillowExtractJson ==
    /\ scraper.pc = "extract_json"
    /\ \/ scraper' = [scraper EXCEPT !.pc = "fallback_fetch"]      \* raised
       \/ \E price \in Opt({400000}), addr \in Opt({"A"}), link \in Opt({"card-link"}) :
             IF TruthyNum(price) \/ TruthyStr(addr) \/ TruthyStr(link)
             THEN ScraperReturn(normalize_property_data("zillow",
                                                        Raw(addr, price, link, None)), TRUE)
             ELSE scraper' = [scraper EXCEPT !.pc = "fallback_fetch"]
    /\ UNCHANGED <<coordVars, fnVars, job, extractor, attom, parser>>

\* resp = await self.client.fetch(search_url, ...); _parse_search_results
ZillowFallbackFetch ==
    /\ scraper.pc = "fallback_fetch"
    /\ \/ ScraperReturn(_empty_property_data("zillow"), FALSE)      \* raised, or no card
       \/ \E card \in ParsedFields, link \in Opt({"card-link"}) :
             ScraperReturn(normalize_property_data("zillow",
                                                   [card EXCEPT !.listing_url = link]),
                           card # NoFields \/ link # None)
    /\ UNCHANGED <<coordVars, fnVars, job, extractor, attom, parser>>

\* if not self.client: raise Exception("Scraping client not initialized")
RedfinClientCheck ==
    /\ scraper.adapter = "redfin"
    /\ scraper.pc = "client_check"
    /\ IF scraper.client
       THEN scraper' = [scraper EXCEPT !.pc = "autocomplete"]
       ELSE ScraperReturn(_empty_property_data("redfin"), FALSE)
    /\ UNCHANGED <<coordVars, fnVars, job, extractor, attom, parser>>

\* the autocomplete lookup: any exception, or no /home/ path, leads to the legacy search;
\* a resolved page is returned with its URL whatever _parse_property_details found
\* (redfin_estimate and walk_score only)
RedfinAutocomplete ==
    /\ scraper.pc = "autocomplete"
    /\ \/ scraper' = [scraper EXCEPT !.pc = "legacy_search"]
       \/ \E estimate \in BOOLEAN :
             ScraperReturn(normalize_property_data("redfin",
                                                   Raw(None, None, Some("home-url"), None)),
                           estimate)
    /\ UNCHANGED <<coordVars, fnVars, job, extractor, attom, parser>>

\* resp = await self.client.fetch(search_url, ...); _parse_search_results
RedfinLegacySearch ==
    /\ scraper.pc = "legacy_search"
    /\ \/ ScraperReturn(_empty_property_data("redfin"), FALSE)      \* raised, or no card
       \/ \E price \in Opt({400000}), addr \in Opt({"A"}) :
             ScraperReturn(normalize_property_data("redfin", Raw(addr, price, None, None)),
                           price # None \/ addr # None)
    /\ UNCHANGED <<coordVars, fnVars, job, extractor, attom, parser>>

\* if not self.client: raise Exception("Scraping client not initialized")
StreetEasyClientCheck ==
    /\ scraper.adapter = "streeteasy"
    /\ scraper.pc = "client_check"
    /\ IF scraper.client
       THEN scraper' = [scraper EXCEPT !.pc = "search"]
       ELSE ScraperReturn(_empty_property_data("streeteasy"), FALSE)
    /\ UNCHANGED <<coordVars, fnVars, job, extractor, attom, parser>>

\* resp = await self.client.fetch(search_url, ...); _parse_search_results
StreetEasySearch ==
    /\ scraper.pc = "search"
    /\ \/ ScraperReturn(_empty_property_data("streeteasy"), FALSE)  \* raised, or no card
       \/ \E card \in ParsedFields :
             ScraperReturn(normalize_property_data("streeteasy", card), card # NoFields)
    /\ UNCHANGED <<coordVars, fnVars, job, extractor, attom, parser>>

NextAdapter ==
    \/ ZillowCandidateFails
    \/ ZillowCandidateReturns
    \/ ZillowClientCheck
    \/ ZillowExtractJson
    \/ ZillowFallbackFetch
    \/ RedfinClientCheck
    \/ RedfinAutocomplete
    \/ RedfinLegacySearch
    \/ StreetEasyClientCheck
    \/ StreetEasySearch

SpecAdapter == InitAdapter /\ [][NextAdapter]_vars

\* C9: search_property of every adapter returns without raising, and whenever the
\* client gave it nothing (no client, failed fetch, unparseable body, nothing found)
\* what it returns is the empty snapshot: the adapter's own source tag, every other
\* field absent.
C9_FailureYieldsEmptySnapshot ==
    /\ scraper.pc # "raised"
    /\ (scraper.pc = "returned" /\ ~scraper.got) =>
          /\ scraper.ret = Some(_empty_property_data(scraper.adapter))
          /\ scraper.ret[1].source = Some(SourceTag[scraper.adapter])
          /\ scraper.ret[1].address = None
          /\ scraper.ret[1].price = None

\* the URLs of the direct lookup: a homedetails candidate or its canonical URL
\* (Zillow), the /home/ path the autocomplete resolved (Redfin)
DirectUrls == {"homedetails", "homedetails-zip", "canonical", "home-url"}

\* C28: search_property of Zillow and Redfin returns a snapshot that carries the URL
\* of the direct lookup only if a property field was parsed from the page fetched
\* there; a page with no field leads on to the search-results scrape.
C28_DirectLookupNeedsField ==
    (scraper.pc = "returned" /\ scraper.ret[1].listing_url \in {Some(u) : u \in DirectUrls})
        => scraper.got

----------------------------------------------------------------------------
(* enrich_property_data_task: one Celery task and its retries.  The          *)
(* database, the ATTOM client, the scrape and the analyst are the            *)
(* environment: each call returns or raises.                                 *)

\* @celery.task(..., max_retries=3)
max_retries == 3

\* why AttomAPIClient.search_property raised
SearchErrors == {"not_found", "auth", "rate_limit"}

\* s[:n]
Take(s, n) == SubSeq(s, 1, Min2(n, Len(s)))
\* max(0, 5 - len(comparable_properties))
need(comps) == IF Len(comps) >= 5 THEN 0 ELSE 5 - Len(comps)

\* Comparable sales are told apart by their address.  get_comparables returns up to
\* max_results=10 properties around the subject.
AttomCompLists ==
    {<<>>, <<"p1", "p2">>, <<"p1", "p2", "p3", "p4", "p5", "p6">>}
\* comparable_properties in the JSON the CrewAI agent returns
LlmCompLists == {<<>>, <<"p1">>, <<"w1", "w2", "w3">>}
\* the JSON array the Tavily agent of stage A returns
StageALists == {<<>>, <<"w1">>, <<"w1", "w2", "w3", "w4", "w5", "w6">>}
\* what _extract_comps_from_text reads from the raw answer of stage A (at most 5)
TextLists == {<<>>, <<"p1", "w2">>, <<"w1", "w2", "w3", "w4", "w5">>}
\* what _tavily_llm_extract_comps returns (at most 5)
StageBLists == {<<"w1", "w3">>, <<"w1", "w2", "w3", "w4", "w5">>}
\* the comparables the task derives from the scraped snapshots
ScrapeCompLists == {<<>>, <<"s1">>}

Stage(name) == job' = [job EXCEPT !.pc = name]
\* the stages entered so far by the current attempt
Entered(name) == \E i \in 1..Len(job.stages) : job.stages[i] = name

\* what one attempt starts from
Fresh ==
    [prop_core |-> "none",       \* none | found | no_id
     lookup |-> "none",          \* how the property search ended
     details |-> "none",         \* none | found | failed
     sqft |-> "absent",          \* extracted_data['square_footage']: absent | null | number (0 included)
     attom |-> FALSE,            \* extracted_data['attom'] is set
     attom_comps |-> <<>>,       \* the comparables of the ATTOM bundle
     scrape |-> "none",          \* none | stored | failed
     scrape_comps |-> <<>>,      \* comparables derivable from extracted_data['multi_source']
     insights |-> "none",        \* none | validated | fallback
     comps |-> <<>>,             \* comparable_properties of the insights record
     before |-> <<>>,            \* comps when the fallback stage run last began
     invoked |-> <<>>,           \* the fallback stages run, each with the length of comps then
     added |-> FALSE,            \* a fallback stage put comparables into the list
     data_sources |-> None,      \* extracted_data['data_sources'] as written by this attempt
     stages |-> <<>>]

Merge(r, s) == [f \in (DOMAIN r) \cup (DOMAIN s) |-> IF f \in DOMAIN s THEN s[f] ELSE r[f]]

\* an exception reaches `except Exception as e` at line 528: the attempt's locals are gone
Raise(where) ==
    job' = Merge([job EXCEPT !.pc = "failure_handler", !.raised = where], Fresh)

InitEnrich ==
    /\ hashSeed = <<"A", "B">>
    /\ CoordIdle
    /\ FnIdle
    /\ scraper = [pc |-> "idle"]
    /\ extractor = [pc |-> "idle"]
    /\ attom = [pc |-> "idle"]
    /\ parser = [pc |-> "idle"]
    /\ \E exists \in BOOLEAN, address \in BOOLEAN, configured \in BOOLEAN, latlng \in BOOLEAN :
          job = Merge(Fresh,
                [pc |-> "fetch_property",
                 exists |-> exists,          \* the properties row is in the database
                 address |-> address,        \* extracted_data carries an address
                 configured |-> configured,  \* ATTOM_API_KEY is set
                 latlng |-> latlng,          \* normalize_address produced lat and lng
                 status |-> "uploaded",      \* the row's status column
                 error |-> FALSE,            \* enrichment_error is recorded in the row
                 raised |-> "none",          \* where the exception of this attempt came from
                 retries |-> 0,              \* self.request.retries
                 countdown |-> 0])           \* delay of the retry scheduled last

\* lines 144-163: fetch the row, check the address, set status 'processing'
FetchProperty ==
    /\ job.pc = "fetch_property"
    /\ IF job.exists /\ job.address
       THEN \/ \E sqft \in {"absent", "null", "number"} :
                  job' = [job EXCEPT !.pc = "create_client", !.status = "processing",
                                     !.sqft = sqft]
            \/ Raise("fetch_property")                   \* the update raised
       ELSE Raise("fetch_property")                      \* ValueError
    /\ UNCHANGED <<coordVars, fnVars, scraper, extractor, attom, parser>>

\* client = AttomAPIClient(): ValueError without an API key, swallowed at line 437
CreateClient ==
    /\ job.pc = "create_client"
    /\ IF job.configured THEN Stage("structured_search") ELSE Stage("analysis")
    /\ UNCHANGED <<coordVars, fnVars, scraper, extractor, attom, parser>>

\* lines 182-188: prop_core = client.search_property(street_clean, ...)
StructuredSearch ==
    /\ job.pc = "structured_search"
    /\ \/ \E found \in {"found", "no_id"} :
             job' = [job EXCEPT !.pc = "proximity", !.prop_core = found, !.lookup = "found",
                                !.stages = Append(@, "search")]
       \/ \E err \in SearchErrors :
             job' = [job EXCEPT !.pc = "raw_search", !.lookup = err,
                                !.stages = Append(@, "search")]
    /\ UNCHANGED <<coordVars, fnVars, scraper, extractor, attom, parser>>

\* lines 189-197: the retry with the raw address string; prop_core = None when it raises
RawSearch ==
    /\ job.pc = "raw_search"
    /\ \/ \E found \in {"found", "no_id"} :
             job' = [job EXCEPT !.pc = "proximity", !.prop_core = found, !.lookup = "found",
                                !.stages = Append(@, "raw_search")]
       \/ \E err \in SearchErrors :
             job' = [job EXCEPT !.pc = "proximity", !.prop_core = "none", !.lookup = err,
                                !.stages = Append(@, "raw_search")]
    /\ UNCHANGED <<coordVars, fnVars, scraper, extractor, attom, parser>>

\* lines 200-218: the proximity search, only without an attom_id and with lat and lng;
\* get_nearby_properties_by_latlng returns a list, empty on every error
ProximityFallback ==
    /\ job.pc = "proximity"
    /\ IF job.prop_core = "found" \/ ~job.latlng
       THEN Stage("read_attom_id")
       ELSE \/ job' = [job EXCEPT !.pc = "read_attom_id",
                                  !.stages = Append(@, "proximity")]       \* no candidate
            \/ \E candidate \in {"found", "no_id"} :
                  job' = [job EXCEPT !.pc = "read_attom_id", !.prop_core = candidate,
                                     !.stages = Append(@, "proximity")]
    /\ UNCHANGED <<coordVars, fnVars, scraper, extractor, attom, parser>>

\* line 220: attom_id = prop_core.get('attom_id'); AttributeError when prop_core is
\* None, swallowed at line 437
ReadAttomId ==
    /\ job.pc = "read_attom_id"
    /\ IF job.prop_core = "none" THEN Stage("analysis")
       ELSE IF job.prop_core = "found" THEN Stage("property_details")
       ELSE Stage("attom_extras")
    /\ UNCHANGED <<coordVars, fnVars, scraper, extractor, attom, parser>>

\* lines 222-223: details = client.get_property_details(attom_id), outside any inner
\* try: what it raises is swallowed at line 437
GetPropertyDetails ==
    /\ job.pc = "property_details"
    /\ \/ job' = [job EXCEPT !.pc = "attom_extras", !.details = "found",
                             !.stages = Append(@, "details")]
       \/ job' = [job EXCEPT !.pc = "analysis", !.details = "failed",
                             !.stages = Append(@, "details")]
    /\ UNCHANGED <<coordVars, fnVars, scraper, extractor, attom, parser>>

\* lines 224-250: AVM, area statistics and comparables, each inside its own try
AttomExtras ==
    /\ job.pc = "attom_extras"
    /\ \E comps \in AttomCompLists :
          job' = [job EXCEPT !.pc = "resolve_area", !.attom_comps = comps]
    /\ UNCHANGED <<coordVars, fnVars, scraper, extractor, attom, parser>>

\* lines 253-306: resolved_geo_v4 = client.find_geo_id_v4_for_area(...), else the
\* ATTOM_GEOID_V4 override; with an identifier the sales trends are fetched
ResolveArea ==
    /\ job.pc = "resolve_area"
    /\ \/ job' = [job EXCEPT !.pc = "build_bundle",
                             !.stages = @ \o <<"resolve", "area_resolved">>]
       \/ job' = [job EXCEPT !.pc = "resolve_area_again", !.stages = Append(@, "resolve")]
    /\ UNCHANGED <<coordVars, fnVars, scraper, extractor, attom, parser>>

\* lines 307-349: without an identifier, client.find_geo_id_v4_for_area(...) is called
\* once more, then the county and ZIP fallbacks
ResolveAreaAgain ==
    /\ job.pc = "resolve_area_again"
    /\ \E area \in {"area_resolved", "area_unresolved"} :
          job' = [job EXCEPT !.pc = "build_bundle", !.stages = @ \o <<"resolve", area>>]
    /\ UNCHANGED <<coordVars, fnVars, scraper, extractor, attom, parser>>

\* lines 350-406: the parcel summary and the bundle; a missing ed['square_footage'] is
\* filled from ATTOM, and set to None when ATTOM has no size either
BuildBundle ==
    /\ job.pc = "build_bundle"
    /\ \E attom_size \in BOOLEAN :
          job' = [job EXCEPT !.pc = "scrape", !.attom = TRUE,
                             !.sqft = IF @ = "number" \/ attom_size THEN "number"
                                      ELSE "null"]
    /\ UNCHANGED <<coordVars, fnVars, scraper, extractor, attom, parser>>

\* lines 409-430: MultiSourceScraper.scrape_property inside its own try
MultiSourceScrape ==
    /\ job.pc = "scrape"
    /\ \/ job' = [job EXCEPT !.pc = "persist", !.scrape = "failed",
                             !.stages = Append(@, "scrape")]
       \/ \E comps \in ScrapeCompLists :
             job' = [job EXCEPT !.pc = "persist", !.scrape = "stored", !.scrape_comps = comps,
                                !.stages = Append(@, "scrape")]
    /\ UNCHANGED <<coordVars, fnVars, scraper, extractor, attom, parser>>

\* lines 432-436: the update of extracted_data; what it raises is swallowed at line 437
PersistEnriched ==
    /\ job.pc = "persist"
    /\ Stage("analysis")
    /\ UNCHANGED <<coordVars, fnVars, scraper, extractor, attom, parser>>

\* the insights record validated by analyze_property, lines 546-573
Validated(comps) ==
    [job EXCEPT !.pc = IF Len(comps) < 3 THEN "stage_a" ELSE "attach_comps",
                !.insights = "validated", !.comps = comps,
                !.stages = Append(@, "analysis")]

\* task lines 440-449, analyst lines 402-547 and 661-664: MarketInsightsAnalyst() builds
\* an AttomAPIClient of its own; analyze_property generates the insights directly from
\* the ATTOM bundle or through the CrewAI agent, and on any exception returns
\* _generate_fallback_insights, whose `sqft > 0` raises for square_footage = None
AnalyzeProperty ==
    /\ job.pc = "analysis"
    /\ IF ~job.configured THEN Raise("MarketInsightsAnalyst")
       ELSE \/ job.attom /\ job' = Validated(job.attom_comps)
            \/ \E llm \in LlmCompLists : job' = Validated(llm)
            \/ IF job.sqft = "null"
               THEN Raise("analyze_property")
               ELSE job' = [job EXCEPT !.pc = "attach_comps", !.insights = "fallback",
                                       !.comps = <<>>, !.stages = Append(@, "analysis")]
    /\ UNCHANGED <<coordVars, fnVars, scraper, extractor, attom, parser>>

\* the fallback stage `name` begins with the comparables gathered so far
Begin(name) ==
    [job EXCEPT !.before = job.comps,
                !.invoked = Append(@, [stage |-> name, had |-> Len(job.comps)]),
                !.stages = Append(@, name)]

\* analyst lines 573-626 and 634-636: the Tavily agent is asked for a JSON array
TavilyStageA ==
    /\ job.pc = "stage_a"
    /\ \/ job' = [Begin("stage_a") EXCEPT !.pc = "stage_b"]   \* kickoff or json.loads raised
       \/ \E comp_list \in StageALists :
             LET now == IF comp_list # <<>> THEN Take(comp_list, 5) ELSE job.comps
             IN job' = [Begin("stage_a") EXCEPT
                           !.comps = now,
                           !.added = @ \/ comp_list # <<>>,
                           !.pc = IF Len(now) < 3 THEN "text_fallback" ELSE "stage_b"]
    /\ UNCHANGED <<coordVars, fnVars, scraper, extractor, attom, parser>>

\* analyst lines 628-633: text_comps = self._extract_comps_from_text(res2_raw)
TextFallbackA ==
    /\ job.pc = "text_fallback"
    /\ \E text_comps \in TextLists :
          job' = [Begin("text_extraction") EXCEPT
                     !.comps = job.comps \o Take(text_comps, need(job.comps)),
                     !.added = @ \/ text_comps # <<>>,
                     !.pc = "stage_b"]
    /\ UNCHANGED <<coordVars, fnVars, scraper, extractor, attom, parser>>

\* stage B without the guard of line 639
TavilyStageBUnguarded ==
    /\ job.pc = "stage_b"
    /\ \/ job' = [Begin("stage_b") EXCEPT !.pc = "attach_comps"]
       \/ \E extra \in StageBLists :
             job' = [Begin("stage_b") EXCEPT
                        !.comps = job.comps \o Take(extra, need(job.comps)),
                        !.added = TRUE,
                        !.pc = "attach_comps"]
    /\ UNCHANGED <<coordVars, fnVars, scraper, extractor, attom, parser>>

\* analyst lines 638-655: extra = self._tavily_llm_extract_comps(...), which reads the
\* comparables from the LLM's JSON array or, without one, from the snippets with
\* _extract_comps_from_text; every exception leaves the list as it is
TavilyStageB ==
    /\ job.pc = "stage_b"
    /\ IF Len(job.comps) < 3
       THEN \/ job' = [Begin("stage_b") EXCEPT !.pc = "attach_comps"]
            \/ \E extra \in StageBLists :
                  job' = [Begin("stage_b") EXCEPT
                             !.comps = job.comps \o Take(extra, need(job.comps)),
                             !.added = TRUE,
                             !.pc = "attach_comps"]
       ELSE Stage("attach_comps")
    /\ UNCHANGED <<coordVars, fnVars, scraper, extractor, attom, parser>>

\* task lines 452-485: when the insights record has no comparables, attach those of the
\* ATTOM bundle, else those derived from the scraped snapshots
AttachComps ==
    /\ job.pc = "attach_comps"
    /\ LET with_attom == IF job.comps = <<>> /\ job.attom /\ job.attom_comps # <<>>
                         THEN job.attom_comps ELSE job.comps
           with_scrape == IF with_attom = <<>> /\ job.scrape_comps # <<>>
                          THEN job.scrape_comps ELSE with_attom
       IN job' = [job EXCEPT !.pc = "final_update", !.comps = with_scrape]
    /\ UNCHANGED <<coordVars, fnVars, scraper, extractor, attom, parser>>

\* lines 487-512: the flags computed from attom_bundle (still {} when the ATTOM block
\* did not reach line 380) and from multi_source.sources_count
data_sources ==
    [attom_property |-> job.attom,
     attom_details |-> job.attom /\ job.details = "found",
     parcel |-> job.attom /\ job.details = "found",
     tavily |-> FALSE,
     scraping |-> job.scrape = "stored" /\ job.scrape_comps # <<>>]

\* lines 487-518: data_sources, then market_insights and status 'enrichment_complete'
\* are written in one update
FinalUpdate ==
    /\ job.pc = "final_update"
    /\ \/ job' = [job EXCEPT !.pc = "done", !.status = "enrichment_complete",
                             !.data_sources = Some(data_sources)]
       \/ Raise("final_update")                          \* the update raised
    /\ UNCHANGED <<coordVars, fnVars, scraper, extractor, attom, parser>>

\* lines 528-544: record the error, then self.retry(countdown=2 ** retries), which
\* re-raises the error once max_retries is reached
FailureHandler ==
    /\ job.pc = "failure_handler"
    /\ \E recorded \in BOOLEAN :
          LET marked == IF recorded /\ job.exists
                        THEN [job EXCEPT !.status = "failed", !.error = TRUE]
                        ELSE job
          IN IF job.retries < max_retries
             THEN job' = [marked EXCEPT !.pc = "retry_scheduled",
                                        !.countdown = Pow2(job.retries)]
             ELSE job' = [marked EXCEPT !.pc = "gave_up"]
    /\ UNCHANGED <<coordVars, fnVars, scraper, extractor, attom, parser>>

\* the worker runs the task again
Retry ==
    /\ job.pc = "retry_scheduled"
    /\ job' = [job EXCEPT !.pc = "fetch_property", !.raised = "none", !.retries = @ + 1]
    /\ UNCHANGED <<coordVars, fnVars, scraper, extractor, attom, parser>>

NextEnrich ==
    \/ FetchProperty
    \/ CreateClient
    \/ StructuredSearch
    \/ RawSearch
    \/ ProximityFallback
    \/ ReadAttomId
    \/ GetPropertyDetails
    \/ AttomExtras
    \/ ResolveArea
    \/ ResolveAreaAgain
    \/ BuildBundle
    \/ MultiSourceScrape
    \/ PersistEnriched
    \/ AnalyzeProperty
    \/ TavilyStageA
    \/ TextFallbackA
    \/ TavilyStageB
    \/ AttachComps
    \/ FinalUpdate
    \/ FailureHandler
    \/ Retry

SpecEnrich == InitEnrich /\ [][NextEnrich]_vars

\* C10: a run that got past the address validation with a configured ATTOM client
\* has attempted the multi-source scrape by the time it starts the analysis, however
\* the property lookup ended.
C10_ScrapeAlwaysAttempted ==
    (job.pc = "analysis" /\ job.configured) => Entered("scrape")

\* C11: analyze_property returns a record for every property_data and every failure of
\* its collaborators: it never raises, and the record it returns after a failure is the
\* fallback record, whose comparable list is empty.
C11_AnalyzeNeverRaises ==
    /\ job.raised # "analyze_property"
    /\ (job.pc = "attach_comps" /\ job.insights = "fallback") => job.comps = <<>>

\* the fallback stages of analyze_property
FallbackStages == {"stage_a", "text_extraction", "stage_b"}
AreaOutcomes == {"area_resolved", "area_unresolved"}

\* C12: a run that is persisted with status 'enrichment_complete' went through the
\* authoritative lookup, the area resolution, the scrape attempt and then the text/web
\* fallback, in this order: the scrape started after the lookup and the area resolution
\* had ended, and no fallback stage started before the scrape attempt had ended.
C12_StagesInOrder ==
    job.status = "enrichment_complete" =>
        \E i, j, k \in 1..Len(job.stages) :
            /\ i < j /\ j < k
            /\ job.stages[i] = "search"
            /\ job.stages[j] \in AreaOutcomes
            /\ job.stages[k] = "scrape"
            /\ \A f \in 1..Len(job.stages) : job.stages[f] \in FallbackStages => k < f

\* C13: within one run no stage is executed a second time: search_property is issued at
\* most once and find_geo_id_v4_for_area is called at most once.
C13_NoStageTwice ==
    /\ Count(job.stages, "search") + Count(job.stages, "raw_search") <= 1
    /\ Count(job.stages, "resolve") <= 1

\* analyze_property is between its validation and its return
InFallbackCode == job.pc \in {"stage_a", "text_fallback", "stage_b"}

\* C14: a fallback stage (web search A, text extraction, web search B) is invoked only
\* while the comparable list holds fewer than 3 entries; with 3 or more entries no
\* fallback stage runs and analyze_property leaves the list unchanged.
C14_FallbackOnlyBelowThree ==
    /\ [](\A i \in 1..Len(job.invoked) : job.invoked[i].had < 3)
    /\ [][(InFallbackCode /\ Len(job.comps) >= 3) =>
             (job'.comps = job.comps /\ job'.invoked = job.invoked)]_vars

\* stage A ran on a short list and filled it, so stage B did not run
C14_Witness ==
    /\ job.pc = "attach_comps"
    /\ Len(job.comps) >= 3
    /\ Len(job.invoked) = 1
    /\ job.invoked[1].stage = "stage_a"
    /\ job.invoked[1].had < 3

\* a fallback stage that reads comparables with _extract_comps_from_text was run
\* (stage B calls it when the LLM returns no JSON array)
TextExtractionAttempted ==
    \E i \in 1..Len(job.invoked) : job.invoked[i].stage \in {"text_extraction", "stage_b"}

\* C15: a run that ended its scrape stage with fewer than 3 comparables, and whose
\* analysis did not bring the list to 3, has attempted the text-extraction fallback when
\* it is Done, also when the fallback insights record was returned.
C15_TextFallbackAlwaysAttempted ==
    (/\ job.pc = "done"
     /\ Entered("scrape")
     /\ Len(job.attom_comps) + Len(job.scrape_comps) < 3
     /\ Len(job.comps) < 3)
        => TextExtractionAttempted

----------------------------------------------------------------------------
(* MarketInsightsAnalyst._extract_comps_from_text                             *)
(* (src/backend/app/agents/market_insights_analyst.py, lines 804-929).       *)
(* A chunk of the text is described by what the regular expressions of the   *)
(* loop body find in it; bedrooms and bathrooms are copied into the record   *)
(* and take no part in any decision, so they are left out.                   *)

\* the longest text examined, in chunks
MaxChunks == 6

\* what the patterns of lines 846-910 find in the chunk `ch`
Chunk(long, address, price, sale_date, url, sqft) ==
    [long |-> long,              \* len(ch.strip()) >= 30
     address |-> address,        \* addr_pat_full / addr_pat_street
     price |-> price,            \* to_int of the dollar amount
     sale_date |-> sale_date,
     url |-> url,                \* URL: ...
     sqft |-> sqft]

ChunkKinds ==
    {Chunk(FALSE, Some("12 Elm St"), Some(500000), None, None, None),
     Chunk(TRUE, None, Some(500000), Some("Jan 2024"), Some("u"), None),
     Chunk(TRUE, Some("12 Elm St"), None, None, None, None),
     Chunk(TRUE, Some("12 Elm St"), Some(0), None, None, None),
     Chunk(TRUE, Some("12 Elm St"), Some(500000), None, Some("u"), Some(1200))}

\* re.split(...) of a text; the empty list stands for an empty or non-str text
Texts == UNION {[1..n -> ChunkKinds] : n \in 0..MaxChunks}

\* lines 912-920: comp = {...}
Comp(ch) ==
    [address |-> ch.address,
     square_feet |-> ch.sqft,
     last_sale_price |-> ch.price,
     last_sale_date |-> ch.sale_date,
     listing_url |-> ch.url]

\* the test of line 923 without `address and`
include_on_signal(ch) ==
    TruthyNum(ch.price) \/ TruthyStr(ch.sale_date) \/ TruthyStr(ch.url) \/ TruthyNum(ch.sqft)

\* line 923: if address and any([price, sale_date, url, sqft])
include(ch) ==
    /\ TruthyStr(ch.address)
    /\ TruthyNum(ch.price) \/ TruthyStr(ch.sale_date) \/ TruthyStr(ch.url) \/ TruthyNum(ch.sqft)

CoordAndJobIdle ==
    /\ hashSeed = <<"A", "B">>
    /\ CoordIdle
    /\ FnIdle
    /\ scraper = [pc |-> "idle"]
    /\ job = [pc |-> "idle"]
    /\ attom = [pc |-> "idle"]
    /\ parser = [pc |-> "idle"]

\* lines 811-816: results = [], chunks = re.split(...)
InitExtract ==
    /\ CoordAndJobIdle
    /\ \E chunks \in Texts :
          extractor = [pc |-> "loop",
                       chunks |-> chunks,
                       i |-> 0,             \* chunks examined so far
                       results |-> <<>>,
                       accepted |-> <<>>,   \* the chunks the results were read from
                       raised |-> FALSE]

\* the loop body without the break of lines 925-926
ExamineChunkNoBreak ==
    /\ extractor.pc = "loop"
    /\ extractor.i < Len(extractor.chunks)
    /\ LET k == extractor.i + 1
           ch == extractor.chunks[k]
       IN IF ~ch.long
          THEN extractor' = [extractor EXCEPT !.i = k]
          ELSE IF include(ch)
               THEN extractor' = [extractor EXCEPT !.i = k,
                                                   !.results = Append(@, Comp(ch)),
                                                   !.accepted = Append(@, k)]
               ELSE extractor' = [extractor EXCEPT !.i = k]
    /\ UNCHANGED <<coordVars, fnVars, scraper, job, attom, parser>>

\* lines 843-926: one iteration of `for ch in chunks`
ExamineChunk ==
    /\ extractor.pc = "loop"
    /\ extractor.i < Len(extractor.chunks)
    /\ LET k == extractor.i + 1
           ch == extractor.chunks[k]
       IN IF ~ch.long
          THEN extractor' = [extractor EXCEPT !.i = k]                       \* continue
          ELSE LET res == IF include(ch) THEN Append(extractor.results, Comp(ch))
                          ELSE extractor.results
                   acc == IF include(ch) THEN Append(extractor.accepted, k)
                          ELSE extractor.accepted
               IN extractor' = [extractor EXCEPT
                                   !.i = k, !.results = res, !.accepted = acc,
                                   !.pc = IF Len(res) >= 5 THEN "returned" ELSE "loop"]
    /\ UNCHANGED <<coordVars, fnVars, scraper, job, attom, parser>>

\* line 929: return results, after the last chunk
ExtractReturns ==
    /\ extractor.pc = "loop"
    /\ extractor.i = Len(extractor.chunks)
    /\ extractor' = [extractor EXCEPT !.pc = "returned"]
    /\ UNCHANGED <<coordVars, fnVars, scraper, job, attom, parser>>

\* lines 927-928: except Exception: return results
ExtractCatches ==
    /\ extractor.pc = "loop"
    /\ extractor.i < Len(extractor.chunks)
    /\ extractor' = [extractor EXCEPT !.pc = "returned", !.raised = TRUE]
    /\ UNCHANGED <<coordVars, fnVars, scraper, job, attom, parser>>

NextExtract ==
    \/ ExamineChunk
    \/ ExtractReturns
    \/ ExtractCatches

SpecExtract == InitExtract /\ [][NextExtract]_vars

\* the record carries one of the four signals
CarriesSaleSignal(r) ==
    \/ r.last_sale_price # None
    \/ r.last_sale_date # None
    \/ r.listing_url # None
    \/ r.square_feet # None

\* C16: every record of the result has a non-empty address and at least one of
\* last_sale_price, last_sale_date, listing_url, square_feet; a chunk without an address
\* yields no record, whatever else it carries.
C16_RecordsHaveAddressAndSignal ==
    /\ \A j \in 1..Len(extractor.results) :
          /\ TruthyStr(extractor.results[j].address)
          /\ CarriesSaleSignal(extractor.results[j])
    /\ \A j \in 1..Len(extractor.accepted) :
          extractor.chunks[extractor.accepted[j]].address # None

\* the call returned records although it had examined a chunk with a price, a date and
\* a URL but no address
C16_Witness ==
    /\ extractor.pc = "returned"
    /\ ~extractor.raised
    /\ extractor.results # <<>>
    /\ \E k \in 1..extractor.i :
          /\ extractor.chunks[k].long
          /\ extractor.chunks[k].address = None
          /\ extractor.chunks[k].price # None
          /\ extractor.chunks[k].sale_date # None
          /\ extractor.chunks[k].url # None

\* the chunk is long enough and has an address and a strong signal
Qualifying(ch) ==
    /\ ch.long
    /\ TruthyStr(ch.address)
    /\ TruthyNum(ch.price) \/ TruthyStr(ch.sale_date) \/ TruthyStr(ch.url) \/ TruthyNum(ch.sqft)

----------------------------------------------------------------------------
(* The comparable list of an enrichment run *)

\* C18: the comparable list stored with the result of a run holds at most 5 entries.
C18_StoredListAtMostFive ==
    job.pc = "done" => Len(job.comps) <= 5

\* C19: no two entries of the stored comparable list have the same address.
C19_NoDuplicateAddress ==
    job.pc = "done" =>
        \A i, j \in 1..Len(job.comps) : i # j => job.comps[i] # job.comps[j]

\* C20: the comparables a fallback stage found in the list when it began are still in
\* the list, in their order and ahead of what the stage added.
C20_StageKeepsEarlierComps ==
    (job.pc \in {"text_fallback", "stage_b", "attach_comps"} /\ job.invoked # <<>>) =>
        /\ Len(job.before) <= Len(job.comps)
        /\ SubSeq(job.comps, 1, Len(job.before)) = job.before

----------------------------------------------------------------------------
(* AttomAPIClient (src/backend/app/clients/attom_client.py).                  *)
(* Time is counted in ticks of 0.25 s. The client keeps last_request_time;    *)
(* the model keeps the time elapsed since then and since the last request    *)
(* left the client, both capped at min_spacing, beyond which nothing depends  *)
(* on them.                                                                   *)

\* line 75: 0.5 s, in ticks
min_spacing == 2

Cap(t) == Min2(t, min_spacing)

\* how long a response takes to arrive
Delays == {0, 2}

HttpErrors == {400, 401, 403, 404, 429, 500}
\* a 200 body: status.code and the number of entries of its list
Bodies == {[code |-> 0, n |-> 0], [code |-> 0, n |-> 1], [code |-> 1, n |-> 0]}
NoBody == [code |-> 1, n |-> 0]
Http(status, body) == [kind |-> "http", status |-> status, body |-> body]
Timeout == [kind |-> "timeout", status |-> 0, body |-> NoBody]
ConnectionError == [kind |-> "connection", status |-> 0, body |-> NoBody]
Responses ==
    {Http(200, b) : b \in Bodies} \cup {Http(st, NoBody) : st \in HttpErrors}
        \cup {Timeout, ConnectionError}

\* t ticks pass
Advance(c, t) ==
    [c EXCEPT !.last_request_time = IF @ = None THEN None ELSE Some(Cap(@[1] + t)),
              !.since_sent = IF @ = None THEN None ELSE Some(Cap(@[1] + t))]

\* a request leaves the client now
Sent(c) ==
    [c EXCEPT !.gap = IF c.since_sent = None THEN @
                      ELSE IF @ = None THEN c.since_sent
                      ELSE Some(Min2(@[1], c.since_sent[1])),
              !.since_sent = Some(0)]

\* lines 73-76: time.sleep(0.5 - elapsed)
Sleep(c) ==
    IF c.last_request_time # None /\ c.last_request_time[1] < min_spacing
    THEN min_spacing - c.last_request_time[1]
    ELSE 0

\* lines 92-108: the exception raised for a response
RequestError(resp) ==
    IF resp.kind = "timeout" THEN "ATTOM API request timed out"
    ELSE IF resp.kind = "connection" THEN "ATTOM API request failed"
    ELSE IF resp.status = 404 THEN "Property not found in ATTOM database"
    ELSE IF resp.status = 401 THEN "ATTOM API authentication failed. Check your API key."
    ELSE IF resp.status = 403 THEN "ATTOM API access forbidden. Check API key permissions."
    ELSE IF resp.status = 429
         THEN "ATTOM API rate limit exceeded. Free trial has daily limits."
    ELSE IF resp.status = 400 THEN "ATTOM API bad request"
    ELSE "ATTOM API error: 500"

\* the time the client waits for `resp`: the timeout is 30 s
Wait(resp, d) == IF resp.kind = "timeout" THEN min_spacing ELSE d

\* _make_request, lines 55-108: the client after the call, and what the call gave
_make_request(c, resp, d) ==
    LET sent == Sent(Advance(c, Sleep(c)))
        back == Advance(sent, Wait(resp, d))
    IN [client |-> IF resp.kind = "http"
                   THEN [back EXCEPT !.last_request_time = Some(0),
                                     !.http = Append(@, resp.status)]
                   ELSE [back EXCEPT !.http = Append(@, 0)],
        ok |-> resp.kind = "http" /\ resp.status = 200,
        body |-> resp.body,
        error |-> RequestError(resp)]

\* self.session.get(url, params=params, timeout=30) of lines 624 and 675
session_get(c, resp, d) ==
    LET back == Advance(Sent(c), Wait(resp, d))
    IN [client |-> [back EXCEPT !.http = Append(@, IF resp.kind = "http" THEN resp.status
                                                   ELSE 0)],
        ok |-> resp.kind = "http" /\ resp.status = 200,
        body |-> resp.body,
        error |-> IF resp.kind = "http" THEN "v4 error: status" ELSE "v4 failed"]

\* what an operation hands to its caller
Value == [kind |-> "value", error |-> "", id |-> None]
Empty == [kind |-> "empty", error |-> "", id |-> None]
Error(msg) == [kind |-> "error", error |-> msg, id |-> None]
\* find_geo_id_v4_for_area returns geos[0].get('geoIdV4') or None
Identifier(id) == [kind |-> "value", error |-> "", id |-> id]

\* the `geographies` of a lookup answer: each entry with or without geoIdV4
GeoLists(tag) ==
    {<<>>, <<Some(tag)>>, <<None, Some(tag)>>}
\* what one lookup_geo_id_v4 call gives: an exception or a list
Raised == [raised |-> TRUE, geos |-> <<>>]
Answered(geos) == [raised |-> FALSE, geos |-> geos]
LookupOutcomes(tag) == {Raised} \cup {Answered(g) : g \in GeoLists(tag)}
\* the response behind a lookup outcome
LookupResponse(o) == IF o.raised THEN Http(404, NoBody) ELSE Http(200, NoBody)

\* the arguments a call was made with, and for find_geo_id_v4_for_area what its two
\* lookups answer
Args(city, state, county, by_city, by_county) ==
    [city |-> city, state |-> state, county |-> county,
     by_city |-> by_city, by_county |-> by_county]
NoArgs == Args(FALSE, FALSE, FALSE, Raised, Raised)

\* a call of `op` begins
Called(op) == [attom EXCEPT !.op = op, !.args = NoArgs, !.http = <<>>, !.gap = None,
                            !.issued = <<>>]
Returned(c, ret) == [c EXCEPT !.ret = ret]

\* an operation that lets the exceptions of _make_request through and raises for a
\* status code other than 0 and for an empty list (get_avm 270-278, get_area_stats
\* 727-735)
Propagating(op, api_msg, none_msg) ==
    \E resp \in Responses, d \in Delays :
        LET r == _make_request(Called(op), resp, d)
        IN attom' = Returned(r.client,
                             IF ~r.ok THEN Error(r.error)
                             ELSE IF r.body.code # 0 THEN Error(api_msg)
                             ELSE IF r.body.n = 0 THEN Error(none_msg)
                             ELSE Value)

\* an operation that wraps its body in `except Exception: return []` (get_comparables
\* 361-392, get_nearby_properties_by_latlng 415-455, get_poi_schools 769-792)
Swallowing(op) ==
    \E resp \in Responses, d \in Delays :
        LET r == _make_request(Called(op), resp, d)
        IN attom' = Returned(r.client,
                             IF ~r.ok THEN Empty
                             ELSE IF r.body.code # 0 THEN Empty
                             ELSE IF r.body.n = 0 THEN Empty
                             ELSE Value)

Others == <<coordVars, fnVars, scraper, job, extractor, parser>>

InitAttom ==
    /\ hashSeed = <<"A", "B">>
    /\ CoordIdle
    /\ FnIdle
    /\ scraper = [pc |-> "idle"]
    /\ job = [pc |-> "idle"]
    /\ extractor = [pc |-> "idle"]
    /\ parser = [pc |-> "idle"]
    /\ attom = [pc |-> "ready",
                last_request_time |-> None,   \* time since self.last_request_time
                since_sent |-> None,          \* time since the last request was sent
                gap |-> None,                 \* least time between two consecutive
                                              \* requests, the last call's included
                op |-> "none",                \* the operation called last
                args |-> NoArgs,
                http |-> <<>>,                \* the statuses it received (0: no response)
                issued |-> <<>>,              \* the lookups find_geo_id_v4_for_area made
                ret |-> Value]

\* lines 110-208
search_property ==
    /\ attom.pc = "ready"
    /\ \E city_and_state \in BOOLEAN, resp \in Responses, d \in Delays :
          LET began == [Called("search_property") EXCEPT
                           !.args = Args(city_and_state, city_and_state, FALSE, Raised, Raised)]
              r == _make_request(began, resp, d)
              ret == IF ~r.ok
                     THEN IF city_and_state
                          THEN Error("No property found for address: address, city, state")
                          ELSE Error(r.error)
                     ELSE IF r.body.code # 0 THEN Error("ATTOM API error: msg")
                     ELSE IF r.body.n = 0
                          THEN Error("No property found for address: address")
                     ELSE Value
          IN attom' = Returned(r.client, ret)
    /\ UNCHANGED Others

\* lines 240-290
get_avm ==
    /\ attom.pc = "ready"
    /\ Propagating("get_avm", "ATTOM AVM error: msg", "AVM data not available for this property")
    /\ UNCHANGED Others

\* lines 709-745
get_area_stats ==
    /\ attom.pc = "ready"
    /\ Propagating("get_area_stats", "ATTOM area stats error: msg", "No area data found for ZIP")
    /\ UNCHANGED Others

\* lines 330-392
get_comparables ==
    /\ attom.pc = "ready"
    /\ Swallowing("get_comparables")
    /\ UNCHANGED Others

\* lines 394-455
get_nearby_properties_by_latlng ==
    /\ attom.pc = "ready"
    /\ Swallowing("get_nearby_properties_by_latlng")
    /\ UNCHANGED Others

\* lines 747-792
get_poi_schools ==
    /\ attom.pc = "ready"
    /\ Swallowing("get_poi_schools")
    /\ UNCHANGED Others

\* the responses the three sales trend endpoints are tried with
TrendResponses == {Http(200, [code |-> 0, n |-> 1]), Http(404, NoBody), ConnectionError}

\* lines 521-581: what get_sales_trends makes of the last answer
Trends(r) ==
    Returned(r.client,
             IF ~r.ok THEN Error("Failed to get sales trends: request")
             ELSE IF r.body.code # 0 THEN Error("Failed to get sales trends: status")
             ELSE IF r.body.n = 0 THEN Error("Failed to get sales trends: none")
             ELSE Value)

\* lines 457-581: the endpoints are tried in turn until one request succeeds; every
\* exception is raised again as "Failed to get sales trends: ..."
get_sales_trends ==
    /\ attom.pc = "ready"
    /\ \E r1, r2, r3 \in TrendResponses, d \in Delays :
          LET a == _make_request(Called("get_sales_trends"), r1, d)
          IN IF a.ok THEN attom' = Trends(a)
             ELSE LET b == _make_request(a.client, r2, d)
                  IN IF b.ok THEN attom' = Trends(b)
                     ELSE attom' = Trends(_make_request(b.client, r3, d))
    /\ UNCHANGED Others

\* lines 583-652
get_sales_trends_v4 ==
    /\ attom.pc = "ready"
    /\ \E resp \in Responses, d \in Delays :
          LET r == session_get(Called("get_sales_trends_v4"), resp, d)
          IN attom' = Returned(r.client, IF r.ok THEN Value ELSE Error(r.error))
    /\ UNCHANGED Others

\* lines 654-682
lookup_geo_id_v4 ==
    /\ attom.pc = "ready"
    /\ \E resp \in Responses, d \in Delays :
          LET r == session_get(Called("lookup_geo_id_v4"), resp, d)
          IN attom' = Returned(r.client,
                               IF ~r.ok THEN Error(r.error)
                               ELSE IF r.body.n = 0 THEN Empty ELSE Value)
    /\ UNCHANGED Others

\* find_geo_id_v4_for_area with the county lookup made first
find_geo_id_v4_for_area_county_first ==
    /\ attom.pc = "ready"
    /\ \E city \in BOOLEAN, state \in BOOLEAN, county \in BOOLEAN,
          by_city \in LookupOutcomes("CI"), by_county \in LookupOutcomes("CO"),
          d \in Delays :
          LET began == [Called("find_geo_id_v4_for_area") EXCEPT
                           !.args = Args(city, state, county, by_city, by_county)]
              asks_county == county /\ state
              first == IF asks_county
                       THEN session_get(began, LookupResponse(by_county), d).client
                       ELSE began
              county_done == asks_county /\ ~by_county.raised /\ by_county.geos # <<>>
              asks_city == ~county_done /\ city /\ state
              second == IF asks_city
                        THEN session_get(first, LookupResponse(by_city), d).client
                        ELSE first
              city_done == asks_city /\ ~by_city.raised /\ by_city.geos # <<>>
          IN attom' = [second EXCEPT
                          !.issued = (IF asks_county THEN <<"CO">> ELSE <<>>)
                                        \o (IF asks_city THEN <<"CI">> ELSE <<>>),
                          !.ret = IF county_done
                                  THEN Identifier(by_county.geos[1])
                                  ELSE IF city_done
                                  THEN Identifier(by_city.geos[1])
                                  ELSE Identifier(None)]
    /\ UNCHANGED Others

\* lines 684-707: the Postal City lookup, then the County lookup; the first entry's
\* geoIdV4 of the first non-empty answer is returned
find_geo_id_v4_for_area ==
    /\ attom.pc = "ready"
    /\ \E city \in BOOLEAN, state \in BOOLEAN, county \in BOOLEAN,
          by_city \in LookupOutcomes("CI"), by_county \in LookupOutcomes("CO"),
          d \in Delays :
          LET began == [Called("find_geo_id_v4_for_area") EXCEPT
                           !.args = Args(city, state, county, by_city, by_county)]
              asks_city == city /\ state
              first == IF asks_city
                       THEN session_get(began, LookupResponse(by_city), d).client
                       ELSE began
              city_done == asks_city /\ ~by_city.raised /\ by_city.geos # <<>>
              asks_county == ~city_done /\ county /\ state
              second == IF asks_county
                        THEN session_get(first, LookupResponse(by_county), d).client
                        ELSE first
              county_done == asks_county /\ ~by_county.raised /\ by_county.geos # <<>>
          IN attom' = [second EXCEPT
                          !.issued = (IF asks_city THEN <<"CI">> ELSE <<>>)
                                        \o (IF asks_county THEN <<"CO">> ELSE <<>>),
                          !.ret = IF city_done
                                  THEN Identifier(by_city.geos[1])
                                  ELSE IF county_done
                                  THEN Identifier(by_county.geos[1])
                                  ELSE Identifier(None)]
    /\ UNCHANGED Others

\* the caller lets a tick pass between two operations
Elapse ==
    /\ attom.pc = "ready"
    /\ attom' = Advance(attom, 1)
    /\ UNCHANGED Others

NextAttom ==
    \/ search_property
    \/ get_avm
    \/ get_area_stats
    \/ get_comparables
    \/ get_nearby_properties_by_latlng
    \/ get_poi_schools
    \/ get_sales_trends
    \/ get_sales_trends_v4
    \/ lookup_geo_id_v4
    \/ Elapse

SpecAttom == InitAttom /\ [][NextAttom]_vars

\* the area resolution and the calls around it
NextGeo ==
    \/ find_geo_id_v4_for_area
    \/ lookup_geo_id_v4
    \/ get_sales_trends_v4
    \/ Elapse

SpecGeo == InitAttom /\ [][NextGeo]_vars

\* the last call was find_geo_id_v4_for_area with city, state and county given
AreaCall ==
    /\ attom.op = "find_geo_id_v4_for_area"
    /\ attom.args.city /\ attom.args.state /\ attom.args.county
\* the lookup answered with at least one candidate
Candidates(o) == ~o.raised /\ o.geos # <<>>

\* C21: find_geo_id_v4_for_area makes the city-level lookup first and the county-level
\* lookup second; with a city candidate the county lookup is not made and the first
\* city candidate's identifier is returned; with no city candidate (or a failed city
\* lookup) and one county candidate, that county identifier is returned.
C21_CityThenCounty ==
    AreaCall =>
        /\ Candidates(attom.args.by_city) =>
              /\ attom.issued = <<"CI">>
              /\ attom.ret.id = attom.args.by_city.geos[1]
        /\ (~Candidates(attom.args.by_city) /\ Candidates(attom.args.by_county)
               /\ Len(attom.args.by_county.geos) = 1) =>
              /\ attom.issued = <<"CI", "CO">>
              /\ attom.ret.id = attom.args.by_county.geos[1]

\* the city lookup found nothing and the county identifier was returned
C21_Witness ==
    /\ AreaCall
    /\ attom.args.by_city = Answered(<<>>)
    /\ attom.issued = <<"CI", "CO">>
    /\ attom.ret.id = Some("CO")

\* the failure type of a response status
FailureType(status) ==
    IF status = 404 THEN "not-found"
    ELSE IF status \in {401, 403} THEN "auth-failure"
    ELSE IF status = 429 THEN "rate-limited"
    ELSE IF status = 400 THEN "malformed-request"
    ELSE "other"

\* the failure type a caller reads from an error
TypeNamedBy(error) ==
    IF error \in {"Property not found in ATTOM database",
                  "No property found for address: address, city, state",
                  "No property found for address: address"} THEN "not-found"
    ELSE IF error \in {"ATTOM API authentication failed. Check your API key.",
                       "ATTOM API access forbidden. Check API key permissions."}
         THEN "auth-failure"
    ELSE IF error = "ATTOM API rate limit exceeded. Free trial has daily limits."
         THEN "rate-limited"
    ELSE IF error = "ATTOM API bad request" THEN "malformed-request"
    ELSE "other"

\* the operations that go through _make_request once
SingleRequestOps ==
    {"search_property", "get_avm", "get_comparables", "get_nearby_properties_by_latlng",
     "get_area_stats", "get_poi_schools"}

\* C22: when the HTTP status of the response is not 200, the operation ends in an error
\* visible to its caller, never in an empty list or record.
C22_NoSilentEmpty ==
    (/\ attom.op \in SingleRequestOps \cup {"get_sales_trends"}
     /\ attom.http # <<>>
     /\ attom.http[Len(attom.http)] \in HttpErrors)
        => attom.ret.kind = "error"

\* C23: the error search_property raises for a request with city and state names the
\* failure type of the response: not-found for 404, auth-failure for 401 and 403,
\* rate-limited for 429, malformed-request for 400.
C23_TypedSearchError ==
    (/\ attom.op = "search_property"
     /\ attom.args.city /\ attom.args.state
     /\ attom.http # <<>>
     /\ attom.http[1] \in {400, 401, 403, 404, 429})
        => TypeNamedBy(attom.ret.error) = FailureType(attom.http[1])

\* C24: two consecutive requests of one client are at least 0.5 s apart.
C24_RequestsSpaced ==
    attom.gap # None => attom.gap[1] >= min_spacing

\* C26: when the first city candidate has no geoIdV4 and the county lookup would give
\* an identifier, the county identifier is returned, not None.
C26_NoneOnlyWhenBothFail ==
    (/\ AreaCall
     /\ Candidates(attom.args.by_city)
     /\ attom.args.by_city.geos[1] = None
     /\ Candidates(attom.args.by_county)
     /\ attom.args.by_county.geos[1] # None)
        => attom.ret.id = attom.args.by_county.geos[1]

\* C25: in the flag set persisted at the end of a run, a stage's flag is true exactly
\* when the stage contributed data in this run; 'tavily' is true whenever a web-search
\* or text-extraction fallback added comparables, 'scraping' is false whenever the
\* scrape failed or returned no source.
C25_FlagsTellContributions ==
    (job.pc = "done" /\ job.data_sources # None) =>
        LET flags == job.data_sources[1]
        IN /\ flags.tavily <=> job.added
           /\ flags.scraping <=> (job.scrape = "stored" /\ job.scrape_comps # <<>>)
           /\ flags.attom_property <=> job.attom
           /\ flags.attom_details <=> (job.attom /\ job.details = "found")

\* C30: for a property that exists, a retry is scheduled only after the status 'failed'
\* and enrichment_error have been recorded, the retry of attempt r has countdown 2^r,
\* at most max_retries retries are made, 'enrichment_complete' is written only with the
\* market insights stored, and the task ends with status 'enrichment_complete' or
\* 'failed'.
C30_RetryAndStatus ==
    job.exists =>
        /\ job.pc = "retry_scheduled" =>
              /\ job.status = "failed" /\ job.error
              /\ job.countdown = Pow2(job.retries)
        /\ job.retries <= max_retries
        /\ job.status = "enrichment_complete" => job.insights # "none"
        /\ job.pc \in {"done", "gave_up"} =>
              job.status \in {"enrichment_complete", "failed"}

-----------------------------------------------------------------------------
(* ZillowScraper._parse_property_details (zillow_scraper.py:320-477)        *)
(* A value of data is named by the layer that assigned it; "none" is a key  *)
(* that is absent or falsy.                                                 *)

Fields == {"price", "address", "bedrooms", "bathrooms", "square_feet"}

\* the fields one layer of the page carries a usable value for
LayerFinds == {{}, Fields, {"price", "bedrooms"}, {"address", "bathrooms", "square_feet"}}

\* the span data-test='zestimate-text': absent, with a $ amount, without one
Zestimates == {"absent", "dollars", "words"}

\* data[key] = value
Assign(p, layer, fs) ==
    [p EXCEPT !.data = [f \in Fields |-> IF f \in fs THEN layer ELSE @[f]],
              !.writes = [f \in Fields |-> IF f \in fs THEN @[f] + 1 ELSE @[f]]]

\* if not data.get(key): data[key] = value
AssignIfMissing(p, layer, fs) ==
    Assign(p, layer, {f \in fs : p.data[f] = "none"})

\* line 331: data = {}
InitParse ==
    /\ hashSeed = <<"A", "B">>
    /\ CoordIdle
    /\ FnIdle
    /\ scraper = [pc |-> "idle"]
    /\ job = [pc |-> "idle"]
    /\ extractor = [pc |-> "idle"]
    /\ attom = [pc |-> "idle"]
    /\ \E dom \in LayerFinds, jsonld \in LayerFinds, next_data \in LayerFinds,
          text \in LayerFinds, zestimate \in Zestimates :
          parser = [pc |-> "dom",
                    page |-> [dom |-> dom,              \* "key: value" rows of home-details
                              jsonld |-> jsonld,        \* the application/ld+json scripts
                              next_data |-> next_data,  \* the __NEXT_DATA__ script
                              text |-> text,            \* matches in soup.get_text()
                              zestimate |-> zestimate],
                    data |-> [f \in Fields |-> "none"],
                    writes |-> [f \in Fields |-> 0]]

\* lines 333-351: zestimate, price history, rent estimate, then
\* data.update(self._parse_details_section(details_section))
ParseDom ==
    /\ parser.pc = "dom"
    /\ parser' = [Assign(parser, "dom", parser.page.dom) EXCEPT !.pc = "jsonld"]
    /\ UNCHANGED <<coordVars, fnVars, scraper, job, extractor, attom>>

\* lines 353-393: absorb() over every JSON-LD object
ParseJsonLd ==
    /\ parser.pc = "jsonld"
    /\ parser' = [AssignIfMissing(parser, "jsonld", parser.page.jsonld)
                     EXCEPT !.pc = "next_data"]
    /\ UNCHANGED <<coordVars, fnVars, scraper, job, extractor, attom>>

\* lines 395-441: deep_get_any() over __NEXT_DATA__
ParseNextData ==
    /\ parser.pc = "next_data"
    /\ parser' = [AssignIfMissing(parser, "next_data", parser.page.next_data)
                     EXCEPT !.pc = "regex"]
    /\ UNCHANGED <<coordVars, fnVars, scraper, job, extractor, attom>>

\* lines 443-472: regular expressions over the zestimate and the page text; the
\* price is looked for only when a zestimate was found (line 447), and there
\* is no expression for the address
ParseRegex ==
    /\ parser.pc = "regex"
    /\ LET price == IF \/ parser.page.zestimate = "dollars"
                       \/ parser.page.zestimate = "words" /\ "price" \in parser.page.text
                    THEN {"price"} ELSE {}
           rest == parser.page.text \cap {"bedrooms", "bathrooms", "square_feet"}
       IN parser' = [AssignIfMissing(parser, "regex", price \cup rest)
                        EXCEPT !.pc = "returned"]
    /\ UNCHANGED <<coordVars, fnVars, scraper, job, extractor, attom>>

NextParse == ParseDom \/ ParseJsonLd \/ ParseNextData \/ ParseRegex

SpecParse == InitParse /\ [][NextParse]_vars

\* the order of the layers the specification gives
LayerOrder == <<"jsonld", "next_data", "dom", "regex">>

Rank(layer) == CHOOSE i \in 1..Len(LayerOrder) : LayerOrder[i] = layer

\* the fields a layer of the page has a value for
Produces(layer) ==
    CASE layer = "jsonld" -> parser.page.jsonld
      [] layer = "next_data" -> parser.page.next_data
      [] layer = "dom" -> parser.page.dom
      [] OTHER -> {}

\* C27: in _parse_property_details a field holds the value of a layer only if no layer
\* earlier in the order JSON-LD, application-state blob, DOM patterns, regex has a value
\* for it, and no field is assigned twice.
C27_EarlierLayerWins ==
    parser.pc # "idle" =>
        \A f \in Fields :
            /\ parser.writes[f] <= 1
            /\ parser.data[f] # "none" =>
                  \A i \in 1..(Rank(parser.data[f]) - 1) : f \notin Produces(LayerOrder[i])

====
